---- MODULE Spec2Model ----
(***************************************************************************)
(* Model of sapien's SapienClient (src/client.py): the dual-store memory   *)
(* pipeline.  add_message inserts a message document into the Mongo        *)
(* collection and fires a background task (_embed_and_upsert) that embeds   *)
(* the content, sets the embedding on the document and upserts a point     *)
(* into Qdrant; get_context searches Qdrant and joins the hits back to the *)
(* Mongo documents.                                                        *)
(*                                                                         *)
(* Every await of the code is a suspension point, so every coroutine is    *)
(* modelled as a process whose steps are the store operations it awaits.   *)
(* The stores and the embedding model are the environment: an awaited      *)
(* store call of add_message or of the background task either takes effect *)
(* or raises; the awaited calls of get_context are answered.               *)
(*                                                                         *)
(* Time is counted in retention windows (the TTL of the timestamp index)   *)
(* and a behaviour lasts less than one of them: the documents the TTL      *)
(* index can delete are those inserted with an explicit timestamp that is  *)
(* at least one retention window old.                                      *)
(***************************************************************************)
EXTENDS Integers, Sequences, FiniteSets, Bags, TLC

\* ---------------------------------------------------------------- bounds
MaxCalls == 2       \* add_message calls made in one behaviour
MaxReruns == 1      \* direct calls of _embed_and_upsert made in one behaviour

\* ------------------------------------------------------------ input sets
Sessions == {"s1", "s2"}
Queries == {"budget"}
Ks == {1, 2}                            \* the k passed to get_context
\* the add_message calls made: (session_id, role, content, timestamp); the
\* timestamp is omitted (None) or a date one retention window ago (0)
Calls ==
    {<<"s1", "user", "laptop", <<>>>>,
     <<"s1", "assistant", "budget", <<0>>>>,
     <<"s2", "user", "laptop", <<>>>>,
     <<"s2", "system", "budget", <<>>>>}

\* ---------------------------------------------------- values of the code
None == <<>>                            \* Python's None, and a field that is not there
Some(x) == <<x>>                        \* a value that is there
ExpireAfter == 1                        \* expireAfterSeconds: one retention window
UtcNow == 1                             \* datetime.utcnow(), in retention windows
HexWidth == 2                           \* hex digits of str(ObjectId); 24 in bson

\* ------------------------------------------------------- pure functions
\* add_message's role check: role not in {"user", "assistant"} raises.
ValidRoleAny(role) == TRUE
ValidRole(role) == role \in {"user", "assistant"}

\* ts = timestamp or datetime.utcnow()
DefaultTimestamp(timestamp, clock) == IF timestamp = None THEN clock ELSE timestamp[1]

\* msg_doc = {"session_id":..., "role":..., "content":..., "timestamp": ts}
MsgDocEmbedded(session_id, role, content, ts) ==
    [session_id |-> session_id, role |-> role, content |-> content,
     timestamp |-> ts, embedding |-> Some(<<0, 0>>)]
MsgDoc(session_id, role, content, ts) ==
    [session_id |-> session_id, role |-> role, content |-> content,
     timestamp |-> ts, embedding |-> None]

\* self._model.encode(text): the embedding model, a deterministic function
\* from text to a fixed-length vector (unit length up to the common scale 5).
Encode(text) ==
    CASE text = "laptop" -> <<3, 4>>
      [] text = "budget" -> <<4, 3>>
      [] OTHER -> <<5, 0>>

\* vec_np.astype(np.float32).tobytes(): two little-endian bytes per component here
RECURSIVE ToBytes(_)
ToBytes(vec) ==
    IF vec = <<>> THEN <<>>
    ELSE <<Head(vec) % 256, Head(vec) \div 256>> \o ToBytes(Tail(vec))

\* vec_np.tolist()
ToList(vec) == [i \in 1..Len(vec) |-> vec[i]]

\* str(message_id): the hexadecimal digits of the ObjectId
StrOfObjectId(oid) == [i \in 1..HexWidth |-> (oid \div (16 ^ (HexWidth - i))) % 16]

\* bson.ObjectId(i): parse the hexadecimal digits back
RECURSIVE ObjectIdOfStr(_)
ObjectIdOfStr(s) ==
    IF s = <<>> THEN 0
    ELSE ObjectIdOfStr(SubSeq(s, 1, Len(s) - 1)) * 16 + s[Len(s)]

\* cosine similarity of two vectors of the same length (all of norm 5)
RECURSIVE Dot(_, _)
Dot(u, v) == IF u = <<>> THEN 0 ELSE Head(u) * Head(v) + Dot(Tail(u), Tail(v))

Min(a, b) == IF a < b THEN a ELSE b

\* --------------------------------------------------------- store contract
\* collection.insert_one(doc) with the generated _id
InsertOneAlone(coll, id, doc) == [i \in {id} |-> doc]
InsertOne(coll, id, doc) == [i \in DOMAIN coll \cup {id} |-> IF i = id THEN doc ELSE coll[i]]

\* collection.find_one({"_id": id}): the document or None
FindOne(coll, id) == IF id \in DOMAIN coll THEN Some(coll[id]) ELSE None

\* collection.update_one({"_id": id}, {"$set": {"embedding": bytes}}):
\* sets the field on the matching document, changes nothing if none matches
UpdateOneReplace(coll, id, bytes) ==
    IF id \in DOMAIN coll
    THEN [coll EXCEPT ![id] = [session_id |-> "", role |-> "", content |-> "",
                               timestamp |-> coll[id].timestamp,
                               embedding |-> Some(bytes)]]
    ELSE coll
UpdateOneNoMatch(coll, id, bytes) == coll
UpdateOneTouch(coll, id, bytes) ==
    IF id \in DOMAIN coll
    THEN [coll EXCEPT ![id].embedding = Some(bytes), ![id].timestamp = UtcNow]
    ELSE coll
UpdateOneAppend(coll, id, bytes) ==
    IF id \in DOMAIN coll
    THEN [coll EXCEPT ![id].embedding =
             IF @ = None THEN Some(bytes) ELSE Some(@[1] \o bytes)]
    ELSE coll
UpdateOne(coll, id, bytes) ==
    IF id \in DOMAIN coll THEN [coll EXCEPT ![id].embedding = Some(bytes)] ELSE coll

\* collection.find({"_id": {"$in": ids}}).to_list(None): the matching
\* documents, each once, in the collection's natural (insertion) order
RECURSIVE FindInOrAll(_, _, _)
FindInOrAll(coll, ids, from) ==
    IF from > MaxCalls THEN <<>>
    ELSE (IF from \in DOMAIN coll /\ (ids = {} \/ from \in ids)
          THEN <<[_id |-> from, doc |-> coll[from]]>> ELSE <<>>)
         \o FindInOrAll(coll, ids, from + 1)
RECURSIVE FindInAllOrNothing(_, _, _)
FindInAllOrNothing(coll, ids, from) ==
    IF from > MaxCalls \/ ~(ids \subseteq DOMAIN coll) THEN <<>>
    ELSE (IF from \in ids THEN <<[_id |-> from, doc |-> coll[from]]>> ELSE <<>>)
         \o FindInAllOrNothing(coll, ids, from + 1)
RECURSIVE FindIn(_, _, _)
FindIn(coll, ids, from) ==
    IF from > MaxCalls THEN <<>>
    ELSE (IF from \in DOMAIN coll /\ from \in ids
          THEN <<[_id |-> from, doc |-> coll[from]]>> ELSE <<>>)
         \o FindIn(coll, ids, from + 1)

\* qdrant.upsert(points=[point]): insert or replace the point with this id
Upsert(index, point) ==
    [p \in DOMAIN index \cup {point.id} |->
        IF p = point.id THEN [vector |-> point.vector, payload |-> point.payload]
        ELSE index[p]]

\* models.PointStruct(id=str(message_id), vector=vec.tolist(),
\*                    payload={"session_id": msg_doc["session_id"]})
PointStructFixedSession(message_id, vec, msg_doc) ==
    [id |-> StrOfObjectId(message_id), vector |-> ToList(vec),
     payload |-> [session_id |-> "s1"]]
PointStruct(message_id, vec, msg_doc) ==
    [id |-> StrOfObjectId(message_id), vector |-> ToList(vec),
     payload |-> [session_id |-> msg_doc.session_id]]

\* the points the search filter keeps: payload session_id = session_id
MatchingAnySession(index, session_id) == DOMAIN index
Matching(index, session_id) ==
    {p \in DOMAIN index : index[p].payload.session_id = session_id}

\* sequences over S of length n without repetition
Arrangements(S, n) ==
    {h \in [1..n -> S] : \A i, j \in 1..n : i # j => h[i] # h[j]}

\* qdrant.search(query_vector, limit=k, filter): the ids of the (at most) k
\* matching points closest to the query, closest first; ties in any order
Search(index, q_vec, k, session_id) ==
    LET M == Matching(index, session_id)
        n == Min(k, Cardinality(M))
    IN  {h \in Arrangements(M, n) :
            /\ \A i \in 1..(n - 1) :
                 Dot(index[h[i]].vector, q_vec) >= Dot(index[h[i + 1]].vector, q_vec)
            /\ \A p \in M : \A i \in 1..n :
                 p \notin {h[j] : j \in 1..n}
                    => Dot(index[p].vector, q_vec) <= Dot(index[h[i]].vector, q_vec)}

\* ------------------------------------------------------------------ state
VARIABLES
    messages,   \* the Mongo collection sapien_messages: _id -> document
    qdrant,     \* the Qdrant collection llm_memory: point id -> vector, payload
    tasks,      \* the tasks made by asyncio.create_task: a bag of task states
    calls,      \* the add_message coroutines, in the order of the calls
    reader,     \* the get_context coroutine
    nextId,     \* the next ObjectId the driver generates
    life        \* the client: "constructed", "open" (__aenter__), "closed"

vars == <<messages, qdrant, tasks, calls, reader, nextId, life>>

IdleReader ==
    [pc |-> "idle", session_id |-> "s1", k |-> 1, q_vec |-> <<>>, hits |-> <<>>,
     result |-> <<>>]

Init ==
    /\ messages = <<>>
    /\ qdrant = <<>>
    /\ tasks = EmptyBag
    /\ calls = <<>>
    /\ reader = IdleReader
    /\ nextId = 1
    /\ life = "constructed"

\* ---------------------------------------------------------- add_message
Args(session_id, role, content, timestamp) ==
    Some([session_id |-> session_id, role |-> role, content |-> content,
          timestamp |-> timestamp])

\* add_message when the role check fails: ValueError, before anything else
AddMessageValueError(session_id, role, content, timestamp) ==
    /\ Len(calls) < MaxCalls
    /\ ~ValidRole(role)
    /\ calls' = Append(calls,
          [pc |-> "done", args |-> Args(session_id, role, content, timestamp),
           id |-> 0, outcome |-> "ValueError"])
    /\ UNCHANGED <<messages, qdrant, tasks, reader, nextId, life>>

\* add_message up to the end of its await: the role check passes, the
\* document is built and insert_one puts it in the collection under a
\* fresh _id.  The coroutine is resumed in AddMessageReturn.
AddMessage(session_id, role, content, timestamp) ==
    /\ Len(calls) < MaxCalls
    /\ ValidRole(role)
    /\ messages' = InsertOne(messages, nextId,
                             MsgDoc(session_id, role, content,
                                    DefaultTimestamp(timestamp, UtcNow)))
    /\ calls' = Append(calls,
          [pc |-> "create_task", args |-> Args(session_id, role, content, timestamp),
           id |-> nextId, outcome |-> "none"])
    /\ nextId' = nextId + 1
    /\ UNCHANGED <<qdrant, tasks, reader, life>>

\* add_message when insert_one raises: there is no handler, so the error
\* reaches the caller and the rest of add_message is skipped.
AddMessageInsertRaises(session_id, role, content, timestamp) ==
    /\ Len(calls) < MaxCalls
    /\ ValidRole(role)
    /\ calls' = Append(calls,
          [pc |-> "done", args |-> Args(session_id, role, content, timestamp),
           id |-> 0, outcome |-> "StoreError"])
    /\ UNCHANGED <<messages, qdrant, tasks, reader, nextId, life>>

\* a task as asyncio.create_task(self._embed_and_upsert(message_id)) makes it
NewTask(message_id) ==
    [message_id |-> message_id, pc |-> "find_one", msg_doc |-> None,
     vec |-> <<>>, tried |-> {}, exc |-> "none"]

CreateTaskTwice(ts, message_id) ==
    ts (+) SetToBag({NewTask(message_id)}) (+) SetToBag({NewTask(message_id)})
CreateTask(ts, message_id) == ts (+) SetToBag({NewTask(message_id)})

AddMessageReturnAwaiting(c) ==
    /\ calls[c].pc = "create_task"
    /\ LET id == calls[c].id
           vec == Encode(calls[c].args[1].content)
       IN  /\ messages' = UpdateOne(messages, id, ToBytes(vec))
           /\ qdrant' = Upsert(qdrant, PointStruct(id, vec, calls[c].args[1]))
           /\ tasks' = tasks (+) SetToBag({[NewTask(id) EXCEPT
                            !.pc = "returned", !.msg_doc = FindOne(messages, id),
                            !.vec = vec, !.tried = {"update_one", "upsert"}]})
    /\ calls' = [calls EXCEPT ![c].pc = "done", ![c].outcome = "returned"]
    /\ UNCHANGED <<reader, nextId, life>>

\* add_message after the insert: message_id = result.inserted_id, the task
\* is created, and message_id is returned, with no await in between.
AddMessageReturn(c) ==
    /\ calls[c].pc = "create_task"
    /\ tasks' = CreateTask(tasks, calls[c].id)
    /\ calls' = [calls EXCEPT ![c].pc = "done", ![c].outcome = "returned"]
    /\ UNCHANGED <<messages, qdrant, reader, nextId, life>>

\* ----------------------------------------------------- _embed_and_upsert
\* the bag of tasks after task t has moved to state u
Step(ts, t, u) == (ts (-) SetToBag({t})) (+) SetToBag({u})

TaskFindOneUnchecked(t) ==
    /\ t.pc = "find_one"
    /\ LET d == FindOne(messages, t.message_id)
       IN  tasks' = Step(tasks, t,
              IF d = None THEN [t EXCEPT !.pc = "failed", !.exc = "encode"]
              ELSE [t EXCEPT !.pc = "encode", !.msg_doc = d])
    /\ UNCHANGED <<messages, qdrant, calls, reader, nextId, life>>

\* msg_doc = await find_one({"_id": message_id}); if not msg_doc: return
TaskFindOne(t) ==
    /\ t.pc = "find_one"
    /\ LET d == FindOne(messages, t.message_id)
       IN  tasks' = Step(tasks, t,
              IF d = None THEN [t EXCEPT !.pc = "returned"]
              ELSE [t EXCEPT !.pc = "encode", !.msg_doc = d])
    /\ UNCHANGED <<messages, qdrant, calls, reader, nextId, life>>

TaskEncodeThenUpsert(t) ==
    /\ t.pc = "encode"
    /\ tasks' = Step(tasks, t, [t EXCEPT !.pc = "upsert",
                                         !.vec = Encode(t.msg_doc[1].content)])
    /\ UNCHANGED <<messages, qdrant, calls, reader, nextId, life>>

\* vec_np = await loop.run_in_executor(None, lambda: encode(content))
TaskEncode(t) ==
    /\ t.pc = "encode"
    /\ tasks' = Step(tasks, t, [t EXCEPT !.pc = "update_one",
                                         !.vec = Encode(t.msg_doc[1].content)])
    /\ UNCHANGED <<messages, qdrant, calls, reader, nextId, life>>

\* await update_one({"_id": message_id}, {"$set": {"embedding": vec_bytes}})
TaskUpdateOne(t) ==
    /\ t.pc = "update_one"
    /\ messages' = UpdateOne(messages, t.message_id, ToBytes(t.vec))
    /\ tasks' = Step(tasks, t, [t EXCEPT !.pc = "upsert",
                                         !.tried = @ \cup {"update_one"}])
    /\ UNCHANGED <<qdrant, calls, reader, nextId, life>>

\* await self._qdrant.upsert(collection_name="llm_memory", points=[point])
TaskUpsert(t) ==
    /\ t.pc = "upsert"
    /\ qdrant' = Upsert(qdrant, PointStruct(t.message_id, t.vec, t.msg_doc[1]))
    /\ tasks' = Step(tasks, t, [t EXCEPT !.pc = "returned",
                                         !.tried = @ \cup {"upsert"}])
    /\ UNCHANGED <<messages, calls, reader, nextId, life>>

\* what an exception raised by the awaited call at pc does to the task:
\* _embed_and_upsert has no try, so the coroutine ends there and the
\* exception stays in the Task object that nobody awaits.
RaiseInTask(task) ==
    [task EXCEPT !.pc = "failed", !.exc = task.pc,
                 !.tried = IF task.pc \in {"update_one", "upsert"}
                           THEN @ \cup {task.pc} ELSE @]

TaskRaisesAndRetries(t) ==
    /\ t.pc \in {"find_one", "encode", "update_one", "upsert"}
    /\ tasks' = Step(tasks, t, RaiseInTask(t)) (+) SetToBag({NewTask(t.message_id)})
    /\ UNCHANGED <<messages, qdrant, calls, reader, nextId, life>>

\* one of the task's awaited calls raises
TaskRaises(t) ==
    /\ t.pc \in {"find_one", "encode", "update_one", "upsert"}
    /\ tasks' = Step(tasks, t, RaiseInTask(t))
    /\ UNCHANGED <<messages, qdrant, calls, reader, nextId, life>>

\* ---------------------------------------------------------- get_context
\* get_context up to the search request: the query is encoded
GetContext(session_id, query, k) ==
    /\ reader.pc \in {"idle", "returned"}
    /\ reader' = [pc |-> "search", session_id |-> session_id, k |-> k,
                  q_vec |-> ToList(Encode(query)), hits |-> <<>>, result |-> <<>>]
    /\ UNCHANGED <<messages, qdrant, tasks, calls, nextId, life>>

\* hits = await self._qdrant.search(query_vector, limit=k, filter=session)
SearchDone ==
    /\ reader.pc = "search"
    /\ \E h \in Search(qdrant, reader.q_vec, reader.k, reader.session_id) :
          reader' = [reader EXCEPT !.pc = "find", !.hits = h]
    /\ UNCHANGED <<messages, qdrant, tasks, calls, nextId, life>>

\* ids = [hit.id for hit in hits]; the $in lookup of ObjectId(i); to_list
GetContextReturn ==
    /\ reader.pc = "find"
    /\ LET ids == {ObjectIdOfStr(reader.hits[i]) : i \in 1..Len(reader.hits)}
       IN  reader' = [reader EXCEPT !.pc = "returned",
                                    !.result = FindIn(messages, ids, 1)]
    /\ UNCHANGED <<messages, qdrant, tasks, calls, nextId, life>>

\* ------------------------------------------------------------ environment
\* the TTL index on timestamp (expireAfterSeconds = 30 days) deletes a
\* document whose timestamp is at least one retention window old
Expire(id) ==
    /\ id \in DOMAIN messages
    /\ UtcNow - messages[id].timestamp >= ExpireAfter
    /\ messages' = [i \in DOMAIN messages \ {id} |-> messages[i]]
    /\ UNCHANGED <<qdrant, tasks, calls, reader, nextId, life>>

\* the steps of add_message, of the tasks and of the TTL index
Ingest ==
    \/ \E a \in Calls : AddMessageValueError(a[1], a[2], a[3], a[4])
    \/ \E a \in Calls : AddMessage(a[1], a[2], a[3], a[4])
    \/ \E a \in Calls : AddMessageInsertRaises(a[1], a[2], a[3], a[4])
    \/ \E c \in DOMAIN calls : AddMessageReturn(c)
    \/ \E t \in BagToSet(tasks) : TaskFindOne(t)
    \/ \E t \in BagToSet(tasks) : TaskEncode(t)
    \/ \E t \in BagToSet(tasks) : TaskUpdateOne(t)
    \/ \E t \in BagToSet(tasks) : TaskUpsert(t)
    \/ \E t \in BagToSet(tasks) : TaskRaises(t)
    \/ \E id \in DOMAIN messages : Expire(id)

\* the steps of get_context, which writes to neither store
Retrieve ==
    \/ \E s \in Sessions, q \in Queries, k \in Ks : GetContext(s, q, k)
    \/ SearchDone
    \/ GetContextReturn

Next == Ingest \/ Retrieve

Spec == Init /\ [][Next]_vars

\* a step of a task created for message id
TaskStepOf(id) ==
    \E t \in {u \in BagToSet(tasks) : u.message_id = id} :
        TaskFindOne(t) \/ TaskEncode(t) \/ TaskUpdateOne(t) \/ TaskUpsert(t)

\* The event loop runs every task that is ready and every awaited call is
\* answered: a task that can take a step eventually takes one (or raises).
\* get_context does not write, so ingestion is checked without it.
FairIngest ==
    Init /\ [][Ingest]_vars /\ \A id \in 1..MaxCalls : WF_vars(TaskStepOf(id))

\* -------------------------------------------------------------- lifecycle
\* __aenter__: ensure_collection, whose error is swallowed; returns self
Open ==
    /\ life = "constructed"
    /\ life' = "open"
    /\ UNCHANGED <<messages, qdrant, tasks, calls, reader, nextId>>

\* close (also __aexit__): closes the Mongo client; the tasks made by
\* create_task are neither awaited nor cancelled, and the Qdrant client is
\* left as it is
Close ==
    /\ life # "closed"
    /\ life' = "closed"
    /\ UNCHANGED <<messages, qdrant, tasks, calls, reader, nextId>>

\* No method reads the lifecycle: add_message, get_context and the tasks
\* take their steps whether or not the client was opened or closed.
LifeNext == Open \/ Close \/ Ingest \/ Retrieve

LifeSpec == Init /\ [][LifeNext]_vars

\* ------------------------------------------------------------- properties
Ids == 1..MaxCalls                      \* the ObjectIds a behaviour can generate

Returned(c) == calls[c].pc = "done" /\ calls[c].outcome = "returned"

\* the document find_one yields for id is the one the call's arguments describe
Recorded(id, args) ==
    /\ FindOne(messages, id) # None
    /\ FindOne(messages, id)[1].content = args.content
    /\ FindOne(messages, id)[1].role = args.role
    /\ FindOne(messages, id)[1].session_id = args.session_id

\* the tasks created for message id
TasksOf(id) == {t \in BagToSet(tasks) : t.message_id = id}
NumTasksOf(id) == BagCardinality([t \in TasksOf(id) |-> tasks[t]])

\* C1: at the step in which add_message(session, role, content) returns an
\* identity (no timestamp passed), find_one on that identity yields a
\* document with the call's content, role and session and no embedding.
C1_ReturnedIdFindsRecord ==
    [][\A c \in DOMAIN calls :
          (calls[c].pc = "create_task" /\ calls'[c].pc = "done"
             /\ calls[c].args[1].timestamp = None)
          => /\ calls'[c].outcome = "returned"
             /\ calls'[c].id = calls[c].id
             /\ calls[c].args[1].role \in {"user", "assistant"}
             /\ FindOne(messages', calls'[c].id) # None
             /\ FindOne(messages', calls'[c].id)[1].content = calls[c].args[1].content
             /\ FindOne(messages', calls'[c].id)[1].role = calls[c].args[1].role
             /\ FindOne(messages', calls'[c].id)[1].session_id = calls[c].args[1].session_id
             /\ FindOne(messages', calls'[c].id)[1].embedding = None]_vars

\* add_message has just returned an identity whose document is there,
\* unembedded, with the task created and not yet started
C1_Witness ==
    \E c \in DOMAIN calls :
        /\ Returned(c)
        /\ calls[c].args[1].timestamp = None
        /\ Recorded(calls[c].id, calls[c].args[1])
        /\ messages[calls[c].id].embedding = None
        /\ \E t \in TasksOf(calls[c].id) : t.pc = "find_one"

\* C2: a call of add_message with a role other than "user" or "assistant"
\* ends in ValueError in its first step, and that step changes neither the
\* collection nor the vector index nor the set of tasks.
C2_InvalidRoleNoWrite ==
    [][\A c \in DOMAIN calls' :
          (c \notin DOMAIN calls /\ calls'[c].args[1].role \notin {"user", "assistant"})
          => /\ calls'[c].pc = "done"
             /\ calls'[c].outcome = "ValueError"
             /\ UNCHANGED <<messages, qdrant, tasks, nextId>>]_vars

\* a call with role "system" has raised ValueError and nothing was written
C2_Witness ==
    /\ \E c \in DOMAIN calls :
          calls[c].outcome = "ValueError" /\ calls[c].args[1].role = "system"
    /\ messages = <<>>
    /\ qdrant = <<>>
    /\ tasks = EmptyBag

\* C3: every identity has exactly one task if a call returned it and none
\* otherwise, a call returns an identity no other call returned, and a call
\* whose insert failed ended in the store's error with no identity: the
\* tasks are as many as the calls that returned.
C3_OneTaskPerReturnedCall ==
    /\ \A id \in Ids :
          NumTasksOf(id) = Cardinality({c \in DOMAIN calls : Returned(c) /\ calls[c].id = id})
    /\ \A id \in Ids : NumTasksOf(id) <= 1
    /\ BagCardinality(tasks) = Cardinality({c \in DOMAIN calls : Returned(c)})
    /\ \A c \in DOMAIN calls :
          calls[c].outcome = "StoreError" => calls[c].pc = "done" /\ calls[c].id = 0
    /\ \A t \in BagToSet(tasks) : t.message_id \in Ids

\* one call returned and has its task, another failed in insert_one
C3_Witness ==
    /\ \E c \in DOMAIN calls : Returned(c) /\ NumTasksOf(calls[c].id) = 1
    /\ \E c \in DOMAIN calls : calls[c].outcome = "StoreError"
    /\ BagCardinality(tasks) = 1

\* C5: the list get_context(session, query, k) returns has at most k
\* documents, all of the requested session, whatever add_message calls, task
\* steps and expirations came before or in between.
C5_AtMostKOfTheSession ==
    reader.pc = "returned"
    => /\ Len(reader.result) <= reader.k
       /\ \A i \in 1..Len(reader.result) :
             reader.result[i].doc.session_id = reader.session_id

\* get_context returned k documents while the index held more points than k
C5_Witness ==
    /\ reader.pc = "returned"
    /\ Len(reader.result) = reader.k
    /\ Cardinality(DOMAIN qdrant) > reader.k

\* C6: when the vector index has no point of the session, the search
\* answers with the empty list of hits, and get_context with no hits
\* returns the empty list.
C6_NoEntryEmptyList ==
    /\ (reader.pc = "search" /\ Matching(qdrant, reader.session_id) = {})
          => Search(qdrant, reader.q_vec, reader.k, reader.session_id) = {<<>>}
    /\ (reader.pc = "returned" /\ reader.hits = <<>>) => reader.result = <<>>

\* get_context returned the empty list for a session whose only message is
\* recorded but not indexed
C6_Witness ==
    /\ reader.pc = "returned"
    /\ reader.hits = <<>>
    /\ reader.result = <<>>
    /\ Matching(qdrant, reader.session_id) = {}
    /\ \E id \in DOMAIN messages : messages[id].session_id = reader.session_id

\* the TTL index may have deleted the document a call with these arguments wrote
Expirable(args) == UtcNow - DefaultTimestamp(args.timestamp, UtcNow) >= ExpireAfter

\* C7: when a task has failed, the call that created it still has returned
\* its identity (the failure did not reach it), and the document is still in
\* the collection with the call's content, role and session, unless the TTL
\* index has deleted it.
C7_TaskFailureKeepsRecord ==
    \A t \in BagToSet(tasks) :
        t.pc = "failed"
        => \E c \in DOMAIN calls :
              /\ Returned(c)
              /\ calls[c].id = t.message_id
              /\ \/ Recorded(t.message_id, calls[c].args[1])
                 \/ /\ FindOne(messages, t.message_id) = None
                    /\ Expirable(calls[c].args[1])

\* the vector upsert of a task raised after its update_one succeeded
C7_Witness ==
    \E t \in BagToSet(tasks) : \E c \in DOMAIN calls :
        /\ t.pc = "failed"
        /\ t.exc = "upsert"
        /\ Returned(c)
        /\ calls[c].id = t.message_id
        /\ Recorded(t.message_id, calls[c].args[1])
        /\ messages[t.message_id].embedding # None

HasEntry(id) == StrOfObjectId(id) \in DOMAIN qdrant
HasEmbedding(id) == id \in DOMAIN messages /\ messages[id].embedding # None

\* C8 as stated: in every reachable state a vector entry exists for a
\* message identity if and only if the message's document has its embedding
C8_EntryIffEmbedding == \A id \in Ids : HasEntry(id) <=> HasEmbedding(id)

\* C8 as amended: a vector entry exists for a message identity only if the
\* message's document has its embedding or is no longer in the collection
C8_EntryOnlyIfEmbedding ==
    \A id \in Ids : (HasEntry(id) /\ id \in DOMAIN messages) => HasEmbedding(id)

\* a message with its embedding and its vector entry
C8_Witness == \E id \in Ids : HasEntry(id) /\ HasEmbedding(id)

\* C9 as stated: a task that is over and attempted one of the two writes
\* after the embedding attempted both
C9_BothSubStepsAttempted ==
    \A t \in BagToSet(tasks) :
        (t.pc \in {"failed", "returned"} /\ t.tried # {})
        => t.tried = {"update_one", "upsert"}

\* the tasks that are created and not over
InFlight == {t \in BagToSet(tasks) : t.pc \notin {"failed", "returned"}}
NumInFlight == BagCardinality([t \in InFlight |-> tasks[t]])

\* C10 as stated, for the largest bound a burst of MaxCalls calls can test:
\* fewer tasks are in flight than calls were made
C10_InFlightBounded == NumInFlight < MaxCalls

\* the document of id has its embedding, and the vector index has the point
\* whose id is str(id), with the document's session as payload
Embedded(id) ==
    /\ HasEmbedding(id)
    /\ HasEntry(id)
    /\ qdrant[StrOfObjectId(id)].payload.session_id = messages[id].session_id

ReturnedId(id) == \E c \in DOMAIN calls : Returned(c) /\ calls[c].id = id
TaskFailed(id) == \E t \in TasksOf(id) : t.pc = "failed"

\* C4: once add_message has returned an identity, and with the task run by
\* the event loop, eventually the document has its embedding and the vector
\* index has the entry with that identity as a string and the message's
\* session as payload -- unless an awaited call of the task raised or the
\* TTL index deleted the document.
C4_EventuallyEmbedded ==
    \A id \in Ids :
        ReturnedId(id) ~> (Embedded(id) \/ TaskFailed(id) \/ id \notin DOMAIN messages)

\* a returned message of session s2, embedded and indexed, its task over
C4_Witness ==
    \E id \in Ids :
        /\ ReturnedId(id)
        /\ Embedded(id)
        /\ messages[id].session_id = "s2"
        /\ \A t \in TasksOf(id) : t.pc = "returned"

\* ------------------------------------------------ the embedding step, again
\* _embed_and_upsert(message_id) called once more for a message add_message
\* returned: a second run of the embedding step, in sequence or interleaved
\* with the task add_message created
Rerun(id) ==
    /\ \E c \in DOMAIN calls : calls[c].pc = "done" /\ calls[c].outcome = "returned"
                               /\ calls[c].id = id
    /\ BagCardinality(tasks)
          < Cardinality({c \in DOMAIN calls : calls[c].outcome = "returned"}) + MaxReruns
    /\ tasks' = tasks (+) SetToBag({NewTask(id)})
    /\ UNCHANGED <<messages, qdrant, calls, reader, nextId, life>>

\* the messages of one session are enough to run the step twice
RerunCalls == {a \in Calls : a[1] = "s1"}

\* add_message and the runs of the embedding step against stores that answer
\* every call; documents still expire
RerunNext ==
    \/ \E a \in RerunCalls : AddMessage(a[1], a[2], a[3], a[4])
    \/ \E c \in DOMAIN calls : AddMessageReturn(c)
    \/ \E t \in BagToSet(tasks) : TaskFindOne(t)
    \/ \E t \in BagToSet(tasks) : TaskEncode(t)
    \/ \E t \in BagToSet(tasks) : TaskUpdateOne(t)
    \/ \E t \in BagToSet(tasks) : TaskUpsert(t)
    \/ \E id \in DOMAIN messages : Expire(id)
    \/ \E id \in 1..MaxCalls : Rerun(id)

RerunSpec == Init /\ [][RerunNext]_vars

\* the arguments of the call that wrote message id
ArgsOf(id) == calls[CHOOSE c \in DOMAIN calls : calls[c].id = id].args[1]

\* a run of the embedding step for id that made both writes
Completed(t) == t.pc = "returned" /\ t.tried = {"update_one", "upsert"}

\* what one run of the embedding step leaves for message id: the bytes of
\* the content's vector on the document, and the one point str(id)
AsOneRun(id) ==
    /\ id \in DOMAIN messages
          => messages[id].embedding = Some(ToBytes(Encode(ArgsOf(id).content)))
    /\ HasEntry(id)
    /\ qdrant[StrOfObjectId(id)] =
          [vector |-> ToList(Encode(ArgsOf(id).content)),
           payload |-> [session_id |-> ArgsOf(id).session_id]]
    /\ Cardinality({p \in DOMAIN qdrant : ObjectIdOfStr(p) = id}) = 1

\* C11: once a run of the embedding step for a message has made both
\* writes, the document's embedding bytes and the vector entry are those of
\* one run, wherever a second run for the same message stands (not started,
\* between its writes, or over).
C11_TwiceAsOnce ==
    \A id \in Ids : (\E t \in TasksOf(id) : Completed(t)) => AsOneRun(id)

\* two runs for the same message, both over with both writes made
C11_Witness ==
    \E id \in Ids :
        /\ NumTasksOf(id) = 2
        /\ \A t \in TasksOf(id) : Completed(t)
        /\ id \in DOMAIN messages
        /\ AsOneRun(id)

\* the identities of the hits and of the documents get_context holds
HitIds(r) == {ObjectIdOfStr(r.hits[i]) : i \in 1..Len(r.hits)}
ResultIds(r) == {r.result[i]._id : i \in 1..Len(r.result)}

\* C12: when get_context returns, its result holds the documents of exactly
\* those hits whose document is still in the collection: a hit whose
\* document is gone is left out, the others are returned, and the call
\* returns a list.
C12_EvictedHitDropped ==
    [][(reader.pc = "find" /\ reader'.pc = "returned")
          => /\ ResultIds(reader') = HitIds(reader) \cap DOMAIN messages
             /\ Len(reader'.result) = Cardinality(ResultIds(reader'))
             /\ \A i \in 1..Len(reader'.result) :
                   reader'.result[i].doc = messages[reader'.result[i]._id]]_vars

\* get_context returned one document for two hits: the other hit's
\* document had been deleted
C12_Witness ==
    /\ reader.pc = "returned"
    /\ Len(reader.hits) = 2
    /\ Len(reader.result) = 1
    /\ \E id \in HitIds(reader) : id \notin DOMAIN messages /\ id \notin ResultIds(reader)

\* the call's insert_one has been acknowledged
Inserted(c) == calls[c].pc = "create_task" \/ Returned(c)

\* C13: however the calls of add_message interleave, the calls whose insert
\* succeeded hold pairwise distinct identities, and each one's document is
\* in the collection with that call's content, role and session (until the
\* TTL index deletes it): no insert is lost or overwritten by another's.
C13_NoWriteLost ==
    \A c \in DOMAIN calls :
        Inserted(c) =>
            /\ \A d \in DOMAIN calls : (d # c /\ Inserted(d)) => calls[d].id # calls[c].id
            /\ \/ Recorded(calls[c].id, calls[c].args[1])
               \/ Expirable(calls[c].args[1]) /\ calls[c].id \notin DOMAIN messages

\* two overlapping calls with different arguments: the later one has
\* returned while the earlier one is still between its insert and its
\* return, and both documents are there
C13_Witness ==
    /\ Len(calls) >= 2
    /\ calls[1].pc = "create_task"
    /\ Returned(2)
    /\ calls[1].args # calls[2].args
    /\ calls[1].id # calls[2].id
    /\ Recorded(calls[1].id, calls[1].args[1])
    /\ Recorded(calls[2].id, calls[2].args[1])

\* C14: no step changes the content, role, session or timestamp of a
\* document that stays in the collection, and an embedding that is present
\* is left as it is: the only change to a document is its embedding going
\* from absent to present, once.
C14_WriteOnceFields ==
    [][\A id \in DOMAIN messages \cap DOMAIN messages' :
          /\ messages'[id].content = messages[id].content
          /\ messages'[id].role = messages[id].role
          /\ messages'[id].session_id = messages[id].session_id
          /\ messages'[id].timestamp = messages[id].timestamp
          /\ messages[id].embedding # None
                => messages'[id].embedding = messages[id].embedding]_vars

\* the task of a message written with an explicit timestamp has made both
\* writes: the document has its embedding and still the call's fields
C14_Witness ==
    \E id \in DOMAIN messages :
        /\ \E t \in TasksOf(id) : Completed(t)
        /\ messages[id].embedding = Some(ToBytes(Encode(ArgsOf(id).content)))
        /\ Recorded(id, ArgsOf(id))
        /\ ArgsOf(id).timestamp # None
        /\ Some(messages[id].timestamp) = ArgsOf(id).timestamp

\* a step in which add_message, get_context or a task has a call to the
\* record store or to the vector index performed
StoreOperation ==
    \/ \E a \in Calls : AddMessage(a[1], a[2], a[3], a[4])
    \/ \E t \in BagToSet(tasks) : TaskFindOne(t) \/ TaskUpdateOne(t) \/ TaskUpsert(t)
    \/ SearchDone
    \/ GetContextReturn

\* C15: every step in which add_message, get_context or a task performs a
\* record store or vector index operation is taken while the client is
\* open: none before __aenter__, none after close.
C15_OnlyBetweenOpenAndClose == [][StoreOperation => life = "open"]_vars

\* C16: a task that is past its find_one without a document either had the
\* call itself raise, or found the message absent and returned at once: no
\* vector computed, no write attempted, no exception, and neither a
\* document nor a vector entry for that message afterwards.
C16_AbsentMessageSilentAbort ==
    \A t \in BagToSet(tasks) :
        (t.pc # "find_one" /\ t.msg_doc = None) =>
            \/ t.pc = "failed" /\ t.exc = "find_one"
            \/ /\ t.pc = "returned"
               /\ t.exc = "none"
               /\ t.vec = <<>>
               /\ t.tried = {}
               /\ t.message_id \notin DOMAIN messages
               /\ ~HasEntry(t.message_id)

\* the document of a returned identity was deleted before its task ran,
\* and the task has returned without doing anything
C16_Witness ==
    \E c \in DOMAIN calls :
        /\ Returned(c)
        /\ calls[c].id \notin DOMAIN messages
        /\ \E t \in TasksOf(calls[c].id) :
              t.pc = "returned" /\ t.msg_doc = None /\ t.tried = {} /\ t.exc = "none"
        /\ ~HasEntry(calls[c].id)

\* C17: once the task of a message has failed, no step starts another run
\* for that message or moves the failed one: the message keeps its single,
\* failed task with the writes it had attempted, its document's embedding
\* stays as it was and its vector entry stays present or missing as it was.
C17_FailedNotRetried ==
    [][\A id \in Ids :
          TaskFailed(id) =>
              /\ TasksOf(id)' = TasksOf(id)
              /\ NumTasksOf(id)' = 1
              /\ HasEntry(id)' <=> HasEntry(id)
              /\ HasEntry(id) => qdrant'[StrOfObjectId(id)] = qdrant[StrOfObjectId(id)]
              /\ id \in DOMAIN messages \cap DOMAIN messages'
                    => messages'[id].embedding = messages[id].embedding]_vars

\* the task of one message failed at update_one and left the document
\* without embedding and the index without entry, while another message's
\* task has made both its writes
C17_Witness ==
    \E id \in DOMAIN messages :
        /\ \E t \in TasksOf(id) : t.pc = "failed" /\ t.exc = "update_one"
        /\ NumTasksOf(id) = 1
        /\ ~HasEmbedding(id)
        /\ ~HasEntry(id)
        /\ \E other \in Ids \ {id} : \E t \in TasksOf(other) : Completed(t)

\* C18: the step in which add_message makes its insert adds one document
\* and writes nothing else; the step in which it returns writes to neither
\* store and leaves the message with one task that has taken no step, the
\* document without embedding and the index without an entry for it; and a
\* call that has made its insert can always return, whatever the tasks do.
C18_ReturnsBeforeEmbedding ==
    [][/\ \A c \in DOMAIN calls' :
             (c \notin DOMAIN calls /\ calls'[c].pc = "create_task")
             => /\ calls'[c].id \notin DOMAIN messages
                /\ DOMAIN messages' = DOMAIN messages \cup {calls'[c].id}
                /\ \A i \in DOMAIN messages : messages'[i] = messages[i]
                /\ qdrant' = qdrant
                /\ tasks' = tasks
       /\ \A c \in DOMAIN calls :
             (calls[c].pc = "create_task" /\ calls'[c].pc = "done")
             => /\ calls'[c].outcome = "returned"
                /\ messages' = messages
                /\ qdrant' = qdrant
                /\ TasksOf(calls[c].id) = {}
                /\ TasksOf(calls[c].id)' = {NewTask(calls[c].id)}
                /\ NumTasksOf(calls[c].id)' = 1
                /\ ~HasEmbedding(calls[c].id)'
                /\ ~HasEntry(calls[c].id)'
       /\ \A c \in DOMAIN calls :
             calls[c].pc = "create_task" => ENABLED AddMessageReturn(c)]_vars

\* a second call has returned while the task of the first, created
\* earlier, has still not taken a step; the second's document is there
\* without embedding or entry
C18_Witness ==
    /\ Len(calls) >= 2
    /\ Returned(1)
    /\ Returned(2)
    /\ \E t \in TasksOf(calls[1].id) : t.pc = "find_one"
    /\ \E t \in TasksOf(calls[2].id) : t.pc = "find_one"
    /\ calls[2].id \in DOMAIN messages
    /\ messages[calls[2].id].embedding = None
    /\ ~HasEntry(calls[2].id)

\* the place of message id among the hits
HitRank(r, id) == CHOOSE i \in 1..Len(r.hits) : ObjectIdOfStr(r.hits[i]) = id

UpdateAcknowledged(t) == "update_one" \in t.tried /\ t.exc # "update_one"

\* C20: a task that is at its upsert, or has attempted it, has had its
\* update_one acknowledged before; and a vector entry for a message was
\* put there by a task of that message after that task's update_one was
\* acknowledged, so that the document, while it exists, holds the bytes of
\* the very vector the entry holds.
C20_UpdateBeforeUpsert ==
    /\ \A t \in BagToSet(tasks) :
          (t.pc = "upsert" \/ "upsert" \in t.tried) => UpdateAcknowledged(t)
    /\ \A id \in Ids :
          HasEntry(id) =>
              \E t \in TasksOf(id) :
                  /\ t.pc = "returned"
                  /\ "upsert" \in t.tried
                  /\ UpdateAcknowledged(t)
                  /\ qdrant[StrOfObjectId(id)].vector = ToList(t.vec)
                  /\ id \in DOMAIN messages
                        => messages[id].embedding = Some(ToBytes(t.vec))

\* one message has its entry and its embedding, and the task of another
\* stands between its acknowledged update_one and its upsert: embedding
\* set, no entry yet
C20_Witness ==
    \E id, other \in DOMAIN messages :
        /\ id # other
        /\ HasEntry(id)
        /\ HasEmbedding(id)
        /\ \E t \in TasksOf(other) : t.pc = "upsert" /\ UpdateAcknowledged(t)
        /\ HasEmbedding(other)
        /\ ~HasEntry(other)

====
